---- MODULE Spec2Model ----
(***************************************************************************)
(* scripts/sync-langs.py: sync the arborium lang-* features from crates.io *)
(* into the generated regions of two Cargo.toml files and audit builtin.rs.*)
(*                                                                         *)
(* Text is a sequence of tokens.  A token is a maximal piece of text that  *)
(* the script treats as a unit: a marker, a newline, a piece of a feature  *)
(* key, a piece of a generated line.  Concatenating the tokens gives the   *)
(* bytes of the text, so two texts are byte-identical exactly when their   *)
(* token sequences are equal.                                              *)
(***************************************************************************)
EXTENDS Naturals, Sequences, FiniteSets

VARIABLES
    pc,           \* position of the run
    args,         \* parsed command line: version, dry_run, ci
    env,          \* what the outside answers: crates.io response, gh outcome
    files,        \* the three documents on disk
    version,      \* resolved version returned by fetch_lang_features
    langs,        \* sorted lang-* keys returned by fetch_lang_features
    changed,      \* main's accumulator of the updaters' return values
    added,        \* audit result
    removed,      \* audit result
    exit_status,  \* process exit status once the run has ended
    log,          \* calls made so far, with what each read, wrote and returned
    rs            \* replace_section under test: inputs and results

vars == <<pc, args, env, files, version, langs, changed, added, removed,
          exit_status, log, rs>>

\* ---------------------------------------------------------------- text

NL == "\n"

None == "None"

Min(S) == CHOOSE m \in S : \A k \in S : m <= k

\* Whether `pre` is a prefix of `s` (str.startswith).
StartsWith(s, pre) == Len(s) >= Len(pre) /\ SubSeq(s, 1, Len(pre)) = pre

\* "\n".join(lines)
RECURSIVE JoinLines(_)
JoinLines(lines) ==
    IF lines = <<>> THEN <<>>
    ELSE IF Len(lines) = 1 THEN lines[1]
    ELSE lines[1] \o <<NL>> \o JoinLines(Tail(lines))

\* str.splitlines(): the pieces between newlines, no empty last piece after
\* a final newline, and no piece at all for the empty text.
RECURSIVE SplitLines(_)
SplitLines(text) ==
    IF text = <<>> THEN <<>>
    ELSE LET nls == {i \in 1..Len(text) : text[i] = NL}
         IN IF nls = {} THEN <<text>>
            ELSE <<SubSeq(text, 1, Min(nls) - 1)>>
                 \o SplitLines(SubSeq(text, Min(nls) + 1, Len(text)))

\* -------------------------------------------------------- replace_section

\* Where the pattern (START\n).*?(\nEND) can match from position i: START and
\* a newline at i, i+1 and, for the lazy .*? under DOTALL, the first newline
\* followed by END at or after i+2 (the two groups do not share a newline).
EndsFrom(content, end_marker, i) ==
    {j \in (i + 2)..(Len(content) - 1) :
        content[j] = NL /\ content[j + 1] = end_marker}

MatchStarts(content, start_marker, end_marker, p) ==
    {i \in p..(Len(content) - 1) :
        /\ content[i] = start_marker
        /\ content[i + 1] = NL
        /\ EndsFrom(content, end_marker, i) # {}}

\* The replacement rf"\g<1>{new_content}\g<2>" is a template: re.subn reads
\* a backslash in it, whether the script's own or one of new_content, together
\* with the text that follows.
BS == "\\"

Group1 == "g<1>"

Group2 == "g<2>"

\* Text that starts with an ASCII letter naming no escape of a template.
Letters == {"x", "old"}

Template(new_content) == <<BS, Group1>> \o new_content \o <<BS, Group2>>

\* What a template stands for at a match whose groups are group1 and group2:
\* \g<n> is group n, \\ a backslash, a backslash before an ASCII letter or at
\* the end is re.error (bad escape), a backslash before anything else stays.
RECURSIVE Expand(_, _, _)
Expand(template, group1, group2) ==
    IF template = <<>> THEN [bad |-> FALSE, text |-> <<>>]
    ELSE IF template[1] # BS
    THEN LET rest == Expand(Tail(template), group1, group2)
         IN [bad |-> rest.bad, text |-> <<template[1]>> \o rest.text]
    ELSE IF Len(template) = 1 THEN [bad |-> TRUE, text |-> <<>>]
    ELSE LET c == template[2]
             rest == Expand(SubSeq(template, 3, Len(template)), group1, group2)
         IN IF c \in Letters THEN [bad |-> TRUE, text |-> <<>>]
            ELSE [bad |-> rest.bad,
                  text |-> (IF c = Group1 THEN group1
                            ELSE IF c = Group2 THEN group2
                            ELSE IF c = BS THEN <<BS>>
                            ELSE <<BS, c>>) \o rest.text]

\* The template at a match of (START\n).*?(\nEND)
Replacement(start_marker, end_marker, new_content) ==
    Expand(Template(new_content), <<start_marker, NL>>, <<NL, end_marker>>)

\* re.subn(pattern, replacement, content, flags=re.DOTALL) from position p:
\* every non-overlapping match, leftmost first, is replaced by what the
\* template stands for; the text between matches is copied.
RECURSIVE Subn(_, _, _, _, _)
Subn(content, start_marker, end_marker, repl, p) ==
    LET starts == MatchStarts(content, start_marker, end_marker, p)
    IN IF starts = {}
       THEN [text |-> SubSeq(content, p, Len(content)), count |-> 0]
       ELSE LET i == Min(starts)
                j == Min(EndsFrom(content, end_marker, i))
                rest == Subn(content, start_marker, end_marker, repl, j + 2)
            IN [text |-> SubSeq(content, p, i - 1) \o repl \o rest.text,
                count |-> 1 + rest.count]

\* The same with the re.DOTALL flag left out: . does not match a newline, so
\* a match needs a single-line interior.
EndsFromNoDotAll(content, end_marker, i) ==
    {j \in EndsFrom(content, end_marker, i) :
        \A k \in (i + 2)..(j - 1) : content[k] # NL}

RECURSIVE SubnNoDotAll(_, _, _, _, _)
SubnNoDotAll(content, start_marker, end_marker, repl, p) ==
    LET starts == {i \in p..(Len(content) - 1) :
                      /\ content[i] = start_marker
                      /\ content[i + 1] = NL
                      /\ EndsFromNoDotAll(content, end_marker, i) # {}}
    IN IF starts = {}
       THEN [text |-> SubSeq(content, p, Len(content)), count |-> 0]
       ELSE LET i == Min(starts)
                j == Min(EndsFromNoDotAll(content, end_marker, i))
                rest == SubnNoDotAll(content, start_marker, end_marker, repl, j + 2)
            IN [text |-> SubSeq(content, p, i - 1) \o repl \o rest.text,
                count |-> 1 + rest.count]

ReplaceSectionNoDotAll(content, start_marker, end_marker, new_content) ==
    LET repl == Replacement(start_marker, end_marker, new_content)
        r == SubnNoDotAll(content, start_marker, end_marker, repl.text, 1)
    IN IF repl.bad \/ r.count = 0
       THEN [raised |-> TRUE, text |-> content]
       ELSE [raised |-> FALSE, text |-> r.text]

\* replace_section: the substituted text, or an exception (raised; text then
\* carries the untouched input): re.error when the template is malformed,
\* ValueError("Markers not found") when nothing matched.
ReplaceSection(content, start_marker, end_marker, new_content) ==
    LET repl == Replacement(start_marker, end_marker, new_content)
        r == Subn(content, start_marker, end_marker, repl.text, 1)
    IN IF repl.bad \/ r.count = 0
       THEN [raised |-> TRUE, text |-> content]
       ELSE [raised |-> FALSE, text |-> r.text]

AllBegin == "# @generated:all-languages:begin"
AllEnd == "# @generated:all-languages:end"
FeatBegin == "# @generated:lang-features:begin"
FeatEnd == "# @generated:lang-features:end"
DepsBegin == "# @generated:lang-deps:begin"
DepsEnd == "# @generated:lang-deps:end"

\* ------------------------------------------------------------ feature keys

\* A feature key is the sequence of its pieces, "lang-go" being
\* <<"lang-", "go">>.  Python compares strings by code point, which on these
\* pieces is the order below.
LangPrefix == <<"lang-">>

PieceOrder == <<"all-", "default", "go", "lang-", "python", "rust">>

Rank(piece) == CHOOSE n \in 1..Len(PieceOrder) : PieceOrder[n] = piece

\* a < b on strings
StrLess(a, b) ==
    \E k \in 1..(Len(a) + 1) :
        /\ k <= Len(b)
        /\ \A m \in 1..(k - 1) : a[m] = b[m]
        /\ \/ k = Len(a) + 1
           \/ k <= Len(a) /\ Rank(a[k]) < Rank(b[k])

\* sorted(S) for a set of strings
RECURSIVE Sorted(_)
Sorted(S) ==
    IF S = {} THEN <<>>
    ELSE LET m == CHOOSE x \in S : \A y \in S : x = y \/ StrLess(x, y)
         IN <<m>> \o Sorted(S \ {m})

Range(seq) == {seq[i] : i \in 1..Len(seq)}

\* The same selection without the startswith("lang-") filter.
SelectLangsUnfiltered(features) == Sorted(features)

\* fetch_lang_features, line 54: the keys of the features mapping that start
\* with lang-, sorted.
SelectLangs(features) == Sorted({k \in features : StartsWith(k, LangPrefix)})

\* fetch_lang_features.  response is what urlopen + json.load gave: ok = FALSE
\* when either raised, else the "versions" list, newest first.  version_arg is
\* args.version, None when the option was not given.
FetchLangFeatures(version_arg, response) ==
    LET versions == response.versions
        hits == {n \in 1..Len(versions) : versions[n].num = version_arg}
    IN IF ~response.ok
       THEN [raised |-> TRUE, num |-> None, langs |-> <<>>]
       ELSE IF version_arg # None
       THEN IF hits = {}
            THEN [raised |-> TRUE, num |-> None, langs |-> <<>>]
            ELSE [raised |-> FALSE,
                  num |-> versions[Min(hits)].num,
                  langs |-> SelectLangs(versions[Min(hits)].features)]
       ELSE IF versions = <<>>
       THEN [raised |-> TRUE, num |-> None, langs |-> <<>>]
       ELSE [raised |-> FALSE,
             num |-> versions[1].num,
             langs |-> SelectLangs(versions[1].features)]

\* ------------------------------------------------------- generated blocks

\* lang[5:] of a key that starts with lang-
Crate(lang) == Tail(lang)

\* f'    "{lang}",'
ItemLine(lang) == <<"    \"">> \o lang \o <<"\",">>

\* f'{lang} = ["dep:arborium-{lang[5:]}"]'
DepFeatureLine(lang) ==
    lang \o <<" = [\"dep:arborium-">> \o Crate(lang) \o <<"\"]">>

\* f'arborium-{lang[5:]} = {{ version = "{version}", optional = true }}'
DependencyLine(ver, lang) ==
    <<"arborium-">> \o Crate(lang)
    \o <<" = { version = \"", ver, "\", optional = true }">>

\* f'{lang} = ["plotnik-langs/{lang}"]'
ReexportLine(lang) == lang \o <<" = [\"plotnik-langs/">> \o lang \o <<"\"]">>

AllLangsItems(ls) == JoinLines([i \in 1..Len(ls) |-> ItemLine(ls[i])])

DepFeatures(ls) == JoinLines([i \in 1..Len(ls) |-> DepFeatureLine(ls[i])])

Deps(ver, ls) == JoinLines([i \in 1..Len(ls) |-> DependencyLine(ver, ls[i])])

Reexports(ls) == JoinLines([i \in 1..Len(ls) |-> ReexportLine(ls[i])])

\* --------------------------------------------------------------- updaters

\* What an updater call did: raised (ValueError out of replace_section),
\* ret (its return value), wrote (path.write_text was called) and file (the
\* document on disk afterwards).
Outcome(content, computed, failed, dry_run) ==
    IF failed
    THEN [raised |-> TRUE, ret |-> FALSE, wrote |-> FALSE, file |-> content]
    ELSE IF computed = content
    THEN [raised |-> FALSE, ret |-> FALSE, wrote |-> FALSE, file |-> content]
    ELSE IF dry_run
    THEN [raised |-> FALSE, ret |-> TRUE, wrote |-> FALSE, file |-> content]
    ELSE [raised |-> FALSE, ret |-> TRUE, wrote |-> TRUE, file |-> computed]

\* update_plotnik_langs, lines 70-101: the three regions regenerated in turn,
\* each call working on the text the one before returned.
LangsContent(content, ver, ls) ==
    LET r1 == ReplaceSection(content, AllBegin, AllEnd, AllLangsItems(ls))
        r2 == ReplaceSection(r1.text, FeatBegin, FeatEnd, DepFeatures(ls))
        r3 == ReplaceSection(r2.text, DepsBegin, DepsEnd, Deps(ver, ls))
    IN [raised |-> r1.raised \/ r2.raised \/ r3.raised, text |-> r3.text]

\* update_plotnik_cli, lines 117-136
CliContent(content, ls) ==
    LET r1 == ReplaceSection(content, AllBegin, AllEnd, AllLangsItems(ls))
        r2 == ReplaceSection(r1.text, FeatBegin, FeatEnd, Reexports(ls))
    IN [raised |-> r1.raised \/ r2.raised, text |-> r2.text]

\* update_plotnik_langs writing each region back as soon as it is computed.
UpdatePlotnikLangsEager(content, ver, ls, dry_run) ==
    LET r1 == ReplaceSection(content, AllBegin, AllEnd, AllLangsItems(ls))
        r2 == ReplaceSection(r1.text, FeatBegin, FeatEnd, DepFeatures(ls))
        r3 == ReplaceSection(r2.text, DepsBegin, DepsEnd, Deps(ver, ls))
        failed == r1.raised \/ r2.raised \/ r3.raised
        last == IF r1.raised THEN content
                ELSE IF r2.raised THEN r1.text
                ELSE IF r3.raised THEN r2.text ELSE r3.text
        out == IF dry_run THEN content ELSE last
    IN [raised |-> failed, ret |-> ~failed /\ last # content,
        wrote |-> out # content, file |-> out]

\* update_plotnik_langs without the content == original test: it always
\* reports a change.
UpdatePlotnikLangsNoCompare(content, ver, ls, dry_run) ==
    LET c == LangsContent(content, ver, ls)
    IN IF c.raised
       THEN [raised |-> TRUE, ret |-> FALSE, wrote |-> FALSE, file |-> content]
       ELSE [raised |-> FALSE, ret |-> TRUE, wrote |-> ~dry_run,
             file |-> IF dry_run THEN content ELSE c.text]

\* update_plotnik_langs
UpdatePlotnikLangs(content, ver, ls, dry_run) ==
    LET c == LangsContent(content, ver, ls)
    IN Outcome(content, c.text, c.raised, dry_run)

\* update_plotnik_cli that writes whatever dry_run says.
UpdatePlotnikCliNoDryRun(content, ls, dry_run) ==
    LET c == CliContent(content, ls)
    IN Outcome(content, c.text, c.raised, FALSE)

\* update_plotnik_cli
UpdatePlotnikCli(content, ls, dry_run) ==
    LET c == CliContent(content, ls)
    IN Outcome(content, c.text, c.raised, dry_run)

\* ------------------------------------------------------------------ audit

Space == " "

Quote == "\""

FeatureKw == "feature:"

\* str.strip() on the pieces of a line: leading and trailing blanks go.
RECURSIVE Strip(_)
Strip(line) ==
    IF line = <<>> THEN <<>>
    ELSE IF line[1] = Space THEN Strip(Tail(line))
    ELSE IF line[Len(line)] = Space THEN Strip(SubSeq(line, 1, Len(line) - 1))
    ELSE line

\* The body of parse_builtin_langs' loop for one line: the set it adds.
LangsOfLine(raw) ==
    LET line == Strip(raw)
    IN IF ~StartsWith(line, <<FeatureKw>>) THEN {}
       ELSE LET rest == Strip(Tail(line))
            IN IF ~StartsWith(rest, <<Quote>>) THEN {}
               ELSE LET inner == Tail(rest)
                        quotes == {i \in 1..Len(inner) : inner[i] = Quote}
                    IN IF quotes = {} THEN {}
                       ELSE LET lang == SubSeq(inner, 1, Min(quotes) - 1)
                            IN IF StartsWith(lang, LangPrefix)
                               THEN {lang} ELSE {}

\* parse_builtin_langs
ParseBuiltinLangs(content) ==
    LET lines == SplitLines(content)
    IN UNION {LangsOfLine(lines[i]) : i \in 1..Len(lines)}

\* check_builtin_consistency reporting every declared lang as removed.
CheckBuiltinConsistencyNoDiff(content, ls) ==
    LET defined == ParseBuiltinLangs(content)
        expected == Range(ls)
    IN [added |-> Sorted(expected \ defined), removed |-> Sorted(defined)]

\* check_builtin_consistency
CheckBuiltinConsistency(content, ls) ==
    LET defined == ParseBuiltinLangs(content)
        expected == Range(ls)
    IN [added |-> Sorted(expected \ defined),
        removed |-> Sorted(defined \ expected)]

\* ------------------------------------------------- replace_section alone

MaxDocChunks == 4

MaxBodyChunks == 1

\* What texts are put together from: the two markers of a region, each alone
\* and with the newline the pattern wants next to it, a newline, other text.
Chunks == {<<AllBegin, NL>>, <<NL, AllEnd>>, <<AllBegin>>, <<AllEnd>>,
           <<NL>>, <<"x">>}

\* A body may also hold a backslash, alone or before the text g<2>.
BodyChunks == Chunks \cup {<<BS>>, <<BS, Group2>>}

RECURSIVE Texts(_, _)
Texts(chunks, n) ==
    IF n = 0 THEN {<<>>}
    ELSE LET shorter == Texts(chunks, n - 1)
         IN shorter \cup {t \o c : t \in shorter, c \in chunks}

NoResult == [raised |-> FALSE, text |-> <<>>]

RsIdle == [content |-> <<>>, new_content |-> <<>>, first |-> NoResult,
           second |-> NoResult]

Idle ==
    /\ args = [version |-> None, dry_run |-> FALSE, ci |-> FALSE]
    /\ env = [response |-> [ok |-> FALSE, versions |-> <<>>], gh_ok |-> TRUE]
    /\ files = [langs_toml |-> <<>>, cli_toml |-> <<>>, builtin_rs |-> <<>>]
    /\ version = None
    /\ langs = <<>>
    /\ changed = FALSE
    /\ added = <<>>
    /\ removed = <<>>
    /\ exit_status = None
    /\ log = <<>>

RewriterInit ==
    /\ Idle
    /\ pc = "replace_first"
    /\ \E t \in Texts(Chunks, MaxDocChunks),
          b \in Texts(BodyChunks, MaxBodyChunks) :
           rs = [RsIdle EXCEPT !.content = t, !.new_content = b]

\* replace_section(content, begin, end, new_content)
ReplaceFirst ==
    /\ pc = "replace_first"
    /\ rs' = [rs EXCEPT !.first =
                  ReplaceSection(rs.content, AllBegin, AllEnd, rs.new_content)]
    /\ pc' = IF rs'.first.raised THEN "raised" ELSE "replace_second"
    /\ UNCHANGED <<args, env, files, version, langs, changed, added, removed,
                   exit_status, log>>

\* replace_section(<the first result>, begin, end, new_content)
ReplaceSecond ==
    /\ pc = "replace_second"
    /\ rs' = [rs EXCEPT !.second =
                  ReplaceSection(rs.first.text, AllBegin, AllEnd, rs.new_content)]
    /\ pc' = IF rs'.second.raised THEN "raised" ELSE "replaced"
    /\ UNCHANGED <<args, env, files, version, langs, changed, added, removed,
                   exit_status, log>>

RewriterNext == ReplaceFirst \/ ReplaceSecond

SpecRewriter == RewriterInit /\ [][RewriterNext]_vars

\* A newline followed by the end marker somewhere in text.
HasEndLine(text) ==
    \E i \in 1..(Len(text) - 1) : text[i] = NL /\ text[i + 1] = AllEnd

SecondDone == pc = "replaced" \/ (pc = "raised" /\ ~rs.first.raised)

\* C4 as stated: whenever the first replace_section call succeeds, the second
\* call with the same body succeeds and returns the first call's text, for
\* every body.
C4_IdempotentAnyBody ==
    SecondDone => ~rs.second.raised /\ rs.second.text = rs.first.text

HasBackslash(text) == \E i \in 1..Len(text) : text[i] = BS

\* C4 as amended: whenever the first call succeeds and the body holds no
\* backslash and no newline directly followed by the end marker, the second
\* call with the same body succeeds and returns the first call's text.
C4_IdempotentBodyWithoutEndLine ==
    (SecondDone /\ ~HasEndLine(rs.new_content) /\ ~HasBackslash(rs.new_content))
        => ~rs.second.raised /\ rs.second.text = rs.first.text

\* The second call has run on a text that the first call changed, with a
\* body that holds the start marker.
C4_Witness ==
    /\ pc = "replaced"
    /\ rs.first.text # rs.content
    /\ \E i \in 1..Len(rs.new_content) : rs.new_content[i] = AllBegin
    /\ rs.second.text = rs.first.text

\* Lines of a text, the last one kept when empty: text.split("\n")
Lines(text) == IF text = <<>> THEN <<>> ELSE
    LET nls == {i \in 1..Len(text) : text[i] = NL}
        cuts == [n \in 1..Cardinality(nls) |->
                    CHOOSE i \in nls : Cardinality({k \in nls : k < i}) = n - 1]
        from(n) == IF n = 1 THEN 1 ELSE cuts[n - 1] + 1
        upto(n) == IF n = Cardinality(nls) + 1 THEN Len(text) ELSE cuts[n] - 1
    IN [n \in 1..(Cardinality(nls) + 1) |-> SubSeq(text, from(n), upto(n))]

\* The start-marker line and the nearest end-marker line after it.
StartLines(text) == {n \in 1..Len(Lines(text)) : Lines(text)[n] = <<AllBegin>>}

EndLinesAfter(text, n) ==
    {m \in (n + 1)..Len(Lines(text)) : Lines(text)[m] = <<AllEnd>>}

HasRegion(text) ==
    \E n \in StartLines(text) : EndLinesAfter(text, n) # {}

\* The text with the lines strictly between the first start-marker line that
\* has an end-marker line after it and that nearest end-marker line replaced
\* by body.
Expected(text, body) ==
    LET ls == Lines(text)
        n == Min({k \in StartLines(text) : EndLinesAfter(text, k) # {}})
        m == Min(EndLinesAfter(text, n))
    IN JoinLines(SubSeq(ls, 1, n)) \o <<NL>> \o body \o <<NL>>
       \o JoinLines(SubSeq(ls, m, Len(ls)))

\* C5 as stated: on a text with a start-marker line and a later end-marker
\* line, replace_section succeeds and returns the text with exactly the lines
\* between the start-marker line and the nearest end-marker line after it
\* replaced by the body, the rest unchanged.
C5_ReplacesInterior ==
    (pc # "replace_first" /\ HasRegion(rs.content))
        => /\ ~rs.first.raised
           /\ rs.first.text = Expected(rs.content, rs.new_content)

Occurrences(text, marker) == Cardinality({i \in 1..Len(text) : text[i] = marker})

\* C6 as stated: when the start marker or the end marker does not occur
\* exactly once in the text, replace_section raises and rewrites nothing.

C6_MarkersExactlyOnce ==
    (/\ pc # "replace_first"
     /\ \/ Occurrences(rs.content, AllBegin) # 1
        \/ Occurrences(rs.content, AllEnd) # 1)
        => rs.first.raised

\* ------------------------------------------------------ the updaters alone

MaxPieces == 3

MaxCalls == 2

LangGo == <<"lang-", "go">>

LangPython == <<"lang-", "python">>

LangRust == <<"lang-", "rust">>

\* What the documents are put together from, one piece per line or group of
\* lines: a hand-written line, each region with an outdated interior, and
\* the all-languages region sitting inside the lang-features region.
Pieces == {
    <<"[features]">>,
    <<AllBegin, NL, "old", NL, AllEnd>>,
    <<FeatBegin, NL, "old", NL, FeatEnd>>,
    <<DepsBegin, NL, "old", NL, DepsEnd>>,
    <<FeatBegin, NL, AllBegin, NL, "old", NL, AllEnd, NL, FeatEnd>>}

RECURSIVE PieceSeqs(_)
PieceSeqs(n) ==
    IF n = 0 THEN {<<>>}
    ELSE LET shorter == PieceSeqs(n - 1)
         IN shorter \cup {ps \o <<q>> : ps \in shorter, q \in Pieces}

Documents == {JoinLines(ps) : ps \in PieceSeqs(MaxPieces)}

LangLists == {<<>>, <<LangGo>>, <<LangGo, LangRust>>}

UpdaterInit ==
    /\ pc = "call"
    /\ args = [version |-> None, dry_run |-> FALSE, ci |-> FALSE]
    /\ env = [response |-> [ok |-> FALSE, versions |-> <<>>], gh_ok |-> TRUE]
    /\ \E d \in Documents :
           files = [langs_toml |-> d, cli_toml |-> d, builtin_rs |-> <<>>]
    /\ version = "2.0"
    /\ langs \in LangLists
    /\ changed = FALSE
    /\ added = <<>>
    /\ removed = <<>>
    /\ exit_status = None
    /\ log = <<>>
    /\ rs = RsIdle

Call(fn, dry_run, before, o) ==
    [fn |-> fn, dry_run |-> dry_run, before |-> before, raised |-> o.raised,
     ret |-> o.ret, wrote |-> o.wrote, after |-> o.file]

\* update_plotnik_langs(langs_toml, version, langs, dry_run)
CallUpdateLangs ==
    /\ pc = "call"
    /\ Len(log) < MaxCalls
    /\ \E dry_run \in BOOLEAN :
           LET o == UpdatePlotnikLangs(files.langs_toml, version, langs, dry_run)
           IN /\ files' = [files EXCEPT !.langs_toml = o.file]
              /\ log' = Append(log, Call("update_plotnik_langs", dry_run,
                                         files.langs_toml, o))
    /\ UNCHANGED <<pc, args, env, version, langs, changed, added, removed,
                   exit_status, rs>>

\* update_plotnik_cli(cli_toml, langs, dry_run)
CallUpdateCli ==
    /\ pc = "call"
    /\ Len(log) < MaxCalls
    /\ \E dry_run \in BOOLEAN :
           LET o == UpdatePlotnikCli(files.cli_toml, langs, dry_run)
           IN /\ files' = [files EXCEPT !.cli_toml = o.file]
              /\ log' = Append(log, Call("update_plotnik_cli", dry_run,
                                         files.cli_toml, o))
    /\ UNCHANGED <<pc, args, env, version, langs, changed, added, removed,
                   exit_status, rs>>

UpdaterNext == CallUpdateLangs \/ CallUpdateCli

SpecUpdater == UpdaterInit /\ [][UpdaterNext]_vars

\* The text an updater call recomputes from what it read.
Recomputed(call) ==
    IF call.fn = "update_plotnik_langs"
    THEN LangsContent(call.before, version, langs)
    ELSE CliContent(call.before, langs)

UpdaterCalls ==
    {n \in 1..Len(log) :
        log[n].fn \in {"update_plotnik_langs", "update_plotnik_cli"}}

\* C2: an updater call writes its file exactly when the recomputed text
\* differs from the text it read and dry_run is false; whenever the text is
\* the same or dry_run is true the file is byte-identical after the call; and
\* the call returns true exactly when the recomputed text differs.
C2_WriteOnlyPendingAndLive ==
    \A n \in UpdaterCalls :
        LET call == log[n]
            new == Recomputed(call)
        IN ~call.raised =>
              /\ ~new.raised
              /\ call.wrote = (new.text # call.before /\ ~call.dry_run)
              /\ call.wrote => call.after = new.text
              /\ (new.text = call.before \/ call.dry_run)
                     => call.after = call.before
              /\ call.ret = (new.text # call.before)

\* A dry-run call with a pending change: it returned true and left the file.
C2_Witness ==
    \E n \in UpdaterCalls :
        /\ log[n].dry_run
        /\ log[n].ret
        /\ ~log[n].wrote
        /\ log[n].after = log[n].before
        /\ \E m \in UpdaterCalls :
               m > n /\ log[m].fn = log[n].fn /\ log[m].wrote

\* Two live calls in a row of the same updater on the same document.
Twice(n) ==
    /\ n \in UpdaterCalls
    /\ n + 1 \in UpdaterCalls
    /\ log[n].fn = log[n + 1].fn
    /\ ~log[n].dry_run
    /\ ~log[n + 1].dry_run
    /\ ~log[n].raised

MaxBuiltinLines == 2

\* feature: "<key>", as builtin.rs writes it inside define_langs!
FeatureLine(key) == <<Space, Space, FeatureKw, Space, Quote>> \o key \o <<Quote, ",">>

\* Lines of builtin.rs: declarations of three langs, a feature without the
\* lang- prefix, a declaration whose closing quote is missing, a quoted lang
\* after another keyword, and a declaration with no blank after the colon.
BuiltinLines == {
    FeatureLine(LangGo),
    FeatureLine(LangPython),
    FeatureLine(LangRust),
    FeatureLine(<<"default">>),
    <<Space, FeatureKw, Space, Quote>> \o LangRust,
    <<Space, "name:", Space, Quote>> \o LangPython \o <<Quote, ",">>,
    <<FeatureKw, Quote>> \o LangGo \o <<Quote>>}

RECURSIVE BuiltinLineSeqs(_)
BuiltinLineSeqs(n) ==
    IF n = 0 THEN {<<>>}
    ELSE LET shorter == BuiltinLineSeqs(n - 1)
         IN shorter \cup {ls \o <<l>> : ls \in shorter, l \in BuiltinLines}

BuiltinDocuments == {JoinLines(ls) : ls \in BuiltinLineSeqs(MaxBuiltinLines)}

AuditInit ==
    /\ pc = "call"
    /\ args = [version |-> None, dry_run |-> FALSE, ci |-> FALSE]
    /\ env = [response |-> [ok |-> FALSE, versions |-> <<>>], gh_ok |-> TRUE]
    /\ \E d \in BuiltinDocuments :
           files = [langs_toml |-> <<>>, cli_toml |-> <<>>, builtin_rs |-> d]
    /\ version = "2.0"
    /\ \E S \in SUBSET {LangGo, LangPython, LangRust} : langs = Sorted(S)
    /\ changed = FALSE
    /\ added = <<>>
    /\ removed = <<>>
    /\ exit_status = None
    /\ log = <<>>
    /\ rs = RsIdle

\* check_builtin_consistency(builtin_rs, langs)
CallCheckBuiltinConsistency ==
    /\ pc = "call"
    /\ LET a == CheckBuiltinConsistency(files.builtin_rs, langs)
       IN /\ added' = a.added
          /\ removed' = a.removed
    /\ pc' = "returned"
    /\ UNCHANGED <<args, env, files, version, langs, changed, exit_status,
                   log, rs>>

AuditNext == CallCheckBuiltinConsistency

SpecAudit == AuditInit /\ [][AuditNext]_vars

\* A list in strictly ascending order: sorted, no element twice.
Ascending(seq) ==
    \A i, j \in 1..Len(seq) : i < j => StrLess(seq[i], seq[j])

\* C8: with C the catalog's langs and D the set parse_builtin_langs extracts,
\* added is C - D and removed is D - C, each a sorted list without
\* duplicates, and the two share no element.
C8_SetDifferences ==
    pc = "returned" =>
        LET C == Range(langs)
            D == ParseBuiltinLangs(files.builtin_rs)
        IN /\ Range(added) = C \ D
           /\ Range(removed) = D \ C
           /\ Ascending(added)
           /\ Ascending(removed)
           /\ Range(added) \cap Range(removed) = {}

\* builtin.rs declares lang-go and lang-python, the catalog has lang-go and
\* lang-rust.
C8_Witness ==
    /\ pc = "returned"
    /\ ParseBuiltinLangs(files.builtin_rs) = {LangGo, LangPython}
    /\ langs = <<LangGo, LangRust>>
    /\ added = <<LangRust>>
    /\ removed = <<LangPython>>

\* ------------------------------------------------------------------- main

\* The versions crates.io lists, newest first: 2.0 with the features given,
\* then 1.0.
Versions(features) ==
    <<[num |-> "2.0", features |-> features],
      [num |-> "1.0", features |-> {LangGo, <<"default">>}]>>

OtherKeys == {<<"default">>, <<"all-", "lang-", "go">>}

\* What the request can give: a failure, an empty list of versions, or a
\* list whose newest version has some langs beside its other features.
Responses ==
    {[ok |-> FALSE, versions |-> <<>>], [ok |-> TRUE, versions |-> <<>>]}
    \cup {[ok |-> TRUE, versions |-> Versions(S \cup OtherKeys)] :
             S \in SUBSET {LangGo, LangPython, LangRust}}

Header == <<"[features]">>

StaleAll == <<AllBegin, NL, "old", NL, AllEnd>>

StaleFeat == <<FeatBegin, NL, "old", NL, FeatEnd>>

StaleDeps == <<DepsBegin, NL, "old", NL, DepsEnd>>

\* crates/plotnik-langs/Cargo.toml: outdated, in sync with lang-go and
\* lang-rust of 2.0, or with its lang-deps region missing.
LangsTomls == {
    JoinLines(<<Header, StaleAll, StaleFeat, <<"[dependencies]">>, StaleDeps>>),
    JoinLines(<<Header,
                <<AllBegin, NL>> \o AllLangsItems(<<LangGo, LangRust>>) \o <<NL, AllEnd>>,
                <<FeatBegin, NL>> \o DepFeatures(<<LangGo, LangRust>>) \o <<NL, FeatEnd>>,
                <<DepsBegin, NL>> \o Deps("2.0", <<LangGo, LangRust>>) \o <<NL, DepsEnd>>>>),
    JoinLines(<<Header, StaleAll, StaleFeat>>)}

\* crates/plotnik-cli/Cargo.toml: outdated, in sync, or with its
\* lang-features region missing.
CliTomls == {
    JoinLines(<<Header, StaleAll, StaleFeat>>),
    JoinLines(<<Header,
                <<AllBegin, NL>> \o AllLangsItems(<<LangGo, LangRust>>) \o <<NL, AllEnd>>,
                <<FeatBegin, NL>> \o Reexports(<<LangGo, LangRust>>) \o <<NL, FeatEnd>>>>),
    JoinLines(<<Header, StaleAll>>)}

\* crates/plotnik-langs/src/builtin.rs
BuiltinRs == {
    JoinLines(<<<<"define_langs! {">>, FeatureLine(LangGo), FeatureLine(LangRust), <<"}">>>>),
    JoinLines(<<<<"define_langs! {">>, FeatureLine(LangGo), FeatureLine(LangPython), <<"}">>>>),
    JoinLines(<<<<"define_langs! {">>, <<"}">>>>)}

Init ==
    /\ pc = "fetch"
    /\ args \in [version : {None, "2.0", "1.0", "9.9"},
                 dry_run : BOOLEAN, ci : BOOLEAN]
    /\ env \in [response : Responses, gh_ok : BOOLEAN]
    /\ files \in [langs_toml : LangsTomls, cli_toml : CliTomls,
                  builtin_rs : BuiltinRs]
    /\ version = None
    /\ langs = <<>>
    /\ changed = FALSE
    /\ added = <<>>
    /\ removed = <<>>
    /\ exit_status = None
    /\ log = <<>>
    /\ rs = RsIdle

\* A call that is no updater, as the log keeps it.
Plain(fn, raised) ==
    [fn |-> fn, dry_run |-> args.dry_run, before |-> files, raised |-> raised,
     ret |-> FALSE, wrote |-> FALSE, after |-> files]

\* main, line 186: an exception out of fetch_lang_features ends the run.
Fetch ==
    /\ pc = "fetch"
    /\ LET r == FetchLangFeatures(args.version, env.response)
       IN /\ log' = Append(log, Plain("fetch_lang_features", r.raised))
          /\ IF r.raised
             THEN /\ pc' = "done"
                  /\ exit_status' = 1
                  /\ UNCHANGED <<version, langs>>
             ELSE /\ pc' = "update_langs"
                  /\ version' = r.num
                  /\ langs' = r.langs
                  /\ UNCHANGED exit_status
    /\ UNCHANGED <<args, env, files, changed, added, removed, rs>>

\* main, line 195
UpdateLangs ==
    /\ pc = "update_langs"
    /\ LET o == UpdatePlotnikLangs(files.langs_toml, version, langs, args.dry_run)
       IN /\ files' = [files EXCEPT !.langs_toml = o.file]
          /\ log' = Append(log, Call("update_plotnik_langs", args.dry_run,
                                     files.langs_toml, o))
          /\ IF o.raised
             THEN /\ pc' = "done"
                  /\ exit_status' = 1
                  /\ UNCHANGED changed
             ELSE /\ pc' = "update_cli"
                  /\ changed' = (changed \/ o.ret)
                  /\ UNCHANGED exit_status
    /\ UNCHANGED <<args, env, version, langs, added, removed, rs>>

\* main, line 196
UpdateCli ==
    /\ pc = "update_cli"
    /\ LET o == UpdatePlotnikCli(files.cli_toml, langs, args.dry_run)
       IN /\ files' = [files EXCEPT !.cli_toml = o.file]
          /\ log' = Append(log, Call("update_plotnik_cli", args.dry_run,
                                     files.cli_toml, o))
          /\ IF o.raised
             THEN /\ pc' = "done"
                  /\ exit_status' = 1
                  /\ UNCHANGED changed
             ELSE /\ pc' = "audit"
                  /\ changed' = (changed \/ o.ret)
                  /\ UNCHANGED exit_status
    /\ UNCHANGED <<args, env, version, langs, added, removed, rs>>

\* main with raise SystemExit(1) indented under if args.ci.
AuditExitOnlyInCi ==
    /\ pc = "audit"
    /\ LET a == CheckBuiltinConsistency(files.builtin_rs, langs)
       IN /\ added' = a.added
          /\ removed' = a.removed
          /\ log' = Append(log, Plain("check_builtin_consistency", FALSE))
          /\ IF (a.added # <<>> \/ a.removed # <<>>) /\ args.ci
             THEN pc' = "post" /\ UNCHANGED exit_status
             ELSE pc' = "done" /\ exit_status' = 0
    /\ UNCHANGED <<args, env, files, version, langs, changed, rs>>

\* main with the if args.ci test around post_pr_comment left out.
AuditPostAlways ==
    /\ pc = "audit"
    /\ LET a == CheckBuiltinConsistency(files.builtin_rs, langs)
       IN /\ added' = a.added
          /\ removed' = a.removed
          /\ log' = Append(log, Plain("check_builtin_consistency", FALSE))
          /\ IF a.added # <<>> \/ a.removed # <<>>
             THEN pc' = "post" /\ UNCHANGED exit_status
             ELSE pc' = "done" /\ exit_status' = 0
    /\ UNCHANGED <<args, env, files, version, langs, changed, rs>>

\* main, lines 201-208: the audit and the branch on its result.  Without
\* drift main returns and the process exits 0.
Audit ==
    /\ pc = "audit"
    /\ LET a == CheckBuiltinConsistency(files.builtin_rs, langs)
       IN /\ added' = a.added
          /\ removed' = a.removed
          /\ log' = Append(log, Plain("check_builtin_consistency", FALSE))
          /\ IF a.added # <<>> \/ a.removed # <<>>
             THEN pc' = (IF args.ci THEN "post" ELSE "exit")
                  /\ UNCHANGED exit_status
             ELSE pc' = "done" /\ exit_status' = 0
    /\ UNCHANGED <<args, env, files, version, langs, changed, rs>>

\* main, line 209: post_pr_comment runs gh with check=True, so a failing gh
\* raises CalledProcessError and ends the run.
PostPrComment ==
    /\ pc = "post"
    /\ log' = Append(log, Plain("post_pr_comment", ~env.gh_ok))
    /\ IF env.gh_ok
       THEN pc' = "exit" /\ UNCHANGED exit_status
       ELSE pc' = "done" /\ exit_status' = 1
    /\ UNCHANGED <<args, env, files, version, langs, changed, added, removed, rs>>

\* main, line 210
RaiseSystemExit ==
    /\ pc = "exit"
    /\ pc' = "done"
    /\ exit_status' = 1
    /\ UNCHANGED <<args, env, files, version, langs, changed, added, removed,
                   log, rs>>

Next ==
    \/ Fetch
    \/ UpdateLangs
    \/ UpdateCli
    \/ Audit
    \/ PostPrComment
    \/ RaiseSystemExit

Spec == Init /\ [][Next]_vars

\* --------------------------------------------------------- claims on main

Entries(fn) == {n \in 1..Len(log) : log[n].fn = fn}

Completed(fn) == \E n \in Entries(fn) : ~log[n].raised

Drift == added # <<>> \/ removed # <<>>

\* C1: in a run where fetch and both updaters completed, the process exits
\* non-zero exactly when the audit's added or removed list is non-empty and
\* exits 0 otherwise, whatever dry_run, ci and the updaters' results were.
C1_ExitStatusIsDrift ==
    (/\ pc = "done"
     /\ Completed("fetch_lang_features")
     /\ Completed("update_plotnik_langs")
     /\ Completed("update_plotnik_cli"))
        => /\ exit_status \in {0, 1}
           /\ (exit_status # 0) = Drift

\* A live run outside CI that rewrote nothing and still exits non-zero on
\* drift.
C1_Witness ==
    /\ pc = "done"
    /\ Completed("update_plotnik_cli")
    /\ ~args.ci
    /\ ~args.dry_run
    /\ ~changed
    /\ Drift
    /\ exit_status = 1

\* The document at path as the calls logged so far leave it: what the run
\* started with, or what the updater of that document left.
Started == log[1].before

LeftBy(fn, path) ==
    IF Entries(fn) = {} THEN Started[path]
    ELSE log[CHOOSE n \in Entries(fn) : TRUE].after

\* C7: a failing step is the last call of the run and writes nothing, the
\* document of a failing updater is byte-identical to what the updater read,
\* the documents are only ever what the run started with or what a completed
\* updater call wrote, and after a failing fetch (request failed, version not
\* found) all three documents are what the run started with.
C7_NoWriteAfterFailure ==
    log # <<>> =>
        /\ \A n \in 1..Len(log) :
               log[n].raised => /\ n = Len(log)
                                /\ pc = "done"
                                /\ ~log[n].wrote
                                /\ log[n].after = log[n].before
        /\ files.langs_toml = LeftBy("update_plotnik_langs", "langs_toml")
        /\ files.cli_toml = LeftBy("update_plotnik_cli", "cli_toml")
        /\ files.builtin_rs = Started.builtin_rs
        /\ ~Completed("fetch_lang_features") => files = Started

\* update_plotnik_langs raised in a live run on a document whose first two
\* regions it had already regenerated in memory.
C7_Witness ==
    /\ pc = "done"
    /\ ~args.dry_run
    /\ \E n \in Entries("update_plotnik_langs") :
           /\ log[n].raised
           /\ ~ReplaceSection(log[n].before, AllBegin, AllEnd, <<>>).raised
    /\ files = Started

\* C9: post_pr_comment is called at most once, only with ci set and drift
\* found and after both updaters and the audit; a finished run has called it
\* exactly when the audit ran, found drift and ci is set; and a run that
\* called it exits non-zero whether gh succeeded or failed.
C9_NotificationOnDriftInCi ==
    /\ Cardinality(Entries("post_pr_comment")) <= 1
    /\ \A n \in Entries("post_pr_comment") :
           /\ args.ci
           /\ Drift
           /\ \E u \in Entries("update_plotnik_langs") : u < n /\ ~log[u].raised
           /\ \E u \in Entries("update_plotnik_cli") : u < n /\ ~log[u].raised
           /\ \E a \in Entries("check_builtin_consistency") : a < n
    /\ pc = "done" =>
           /\ (Entries("post_pr_comment") # {})
                  = (/\ Entries("check_builtin_consistency") # {}
                     /\ Drift
                     /\ args.ci)
           /\ Entries("post_pr_comment") # {} => exit_status = 1

\* A finished CI run whose notification failed.
C9_Witness ==
    /\ pc = "done"
    /\ \E n \in Entries("post_pr_comment") : log[n].raised
    /\ exit_status = 1

\* The feature mapping of the catalog entry the run selected.
Selected ==
    LET versions == env.response.versions
    IN versions[Min({n \in 1..Len(versions) : versions[n].num = version})].features

\* The lines strictly between the marker lines of a region.
LinesBetween(text, begin, end) ==
    LET ls == Lines(text)
        n == Min({k \in 1..Len(ls) : ls[k] = <<begin>>})
        m == Min({k \in (n + 1)..Len(ls) : ls[k] = <<end>>})
    IN SubSeq(ls, n + 1, m - 1)

\* One line Line(k) per selected key k that starts with lang-, none for the
\* other keys, no other text, ascending in k.
OneLinePerLang(ls, Line(_)) ==
    LET keys == {k \in Selected : StartsWith(k, LangPrefix)}
        at(k) == {n \in 1..Len(ls) : ls[n] = Line(k)}
    IN /\ \A k \in Selected :
              Cardinality(at(k)) = IF k \in keys THEN 1 ELSE 0
       /\ \A n \in 1..Len(ls) : ls[n] # <<>> => \E k \in keys : n \in at(k)
       /\ \A a, b \in keys :
              StrLess(a, b) => \A n \in at(a), m \in at(b) : n < m

\* C10: in a run of main, the text each completed updater call generates
\* (and, in a live run, leaves on disk) holds in each of its regions exactly
\* one line per lang- key of the selected catalog entry, none for the other
\* keys, in ascending order of the key, and the all-languages region is the
\* same in both documents.
C10_RegionsListLangsInOrder ==
    /\ \A n \in Entries("update_plotnik_langs") :
           ~log[n].raised =>
               LET text == Recomputed(log[n]).text
               IN /\ ~args.dry_run => files.langs_toml = text
                  /\ OneLinePerLang(LinesBetween(text, AllBegin, AllEnd),
                                    ItemLine)
                  /\ OneLinePerLang(LinesBetween(text, FeatBegin, FeatEnd),
                                    DepFeatureLine)
                  /\ OneLinePerLang(LinesBetween(text, DepsBegin, DepsEnd),
                                    LAMBDA k : DependencyLine(version, k))
    /\ \A n \in Entries("update_plotnik_cli") :
           ~log[n].raised =>
               LET text == Recomputed(log[n]).text
               IN /\ ~args.dry_run => files.cli_toml = text
                  /\ OneLinePerLang(LinesBetween(text, AllBegin, AllEnd),
                                    ItemLine)
                  /\ OneLinePerLang(LinesBetween(text, FeatBegin, FeatEnd),
                                    ReexportLine)
                  /\ \A m \in Entries("update_plotnik_langs") :
                         LinesBetween(Recomputed(log[m]).text, AllBegin, AllEnd)
                             = LinesBetween(text, AllBegin, AllEnd)

\* A live run that rewrote both documents for three langs.
C10_Witness ==
    /\ pc = "done"
    /\ ~args.dry_run
    /\ langs = <<LangGo, LangPython, LangRust>>
    /\ \E n \in Entries("update_plotnik_langs") : log[n].wrote
    /\ \E n \in Entries("update_plotnik_cli") : log[n].wrote

====
